---------------------------- MODULE Spec2Model ----------------------------
(***************************************************************************)
(* A model of the side-chat feature of the web front end: the side-chat    *)
(* API client (src/lib/apis/side-chats/index.ts), the SideChat panel, the  *)
(* StepControls component and the TopicSplit countdown banner.             *)
(*                                                                         *)
(* Every component has its own variables, initial condition, next-state    *)
(* relation and specification; a component's steps leave the variables of  *)
(* the other components unchanged.                                         *)
(***************************************************************************)
EXTENDS Integers, Sequences, FiniteSets, TLC

(***************************************************************************)
(* JavaScript values.  A value is a record of its type and its printed     *)
(* form, so that values of different types can be compared.                *)
(***************************************************************************)
JsNull == [kind |-> "null", val |-> "null"]

JsUndefined == [kind |-> "undefined", val |-> "undefined"]

JsFalse == [kind |-> "boolean", val |-> "false"]

JsTrue == [kind |-> "boolean", val |-> "true"]

JsZero == [kind |-> "number", val |-> "0"]

JsOne == [kind |-> "number", val |-> "1"]

JsEmptyString == [kind |-> "string", val |-> ""]

JsString == [kind |-> "string", val |-> "error"]

JsObject == [kind |-> "object", val |-> "{detail: 'Not found'}"]

JsArray == [kind |-> "array", val |-> "[]"]

\* The values a response body can parse to: every shape of JSON value.
JsonValues ==
    {JsNull, JsFalse, JsTrue, JsZero, JsOne, JsEmptyString, JsString, JsObject, JsArray}

\* What fetch rejects with when the request fails at the network level.
NetworkErrors ==
    { [kind |-> "error", val |-> "TypeError: Failed to fetch"],
      [kind |-> "error", val |-> "AbortError"] }

\* What Response.json() rejects with when the body is not JSON.
ParseError == [kind |-> "error", val |-> "SyntaxError: Unexpected token"]

\* ToBoolean, as `if (error)' and `token && ...' apply it.
Truthy(v) ==
    CASE v.kind = "null" -> FALSE
      [] v.kind = "undefined" -> FALSE
      [] v.kind = "boolean" -> v.val = "true"
      [] v.kind = "number" -> v.val \notin {"0", "NaN"}
      [] v.kind = "string" -> v.val # ""
      [] OTHER -> TRUE

(***************************************************************************)
(* The side-chat API client.                                               *)
(***************************************************************************)
ApiOps ==
    {"createSideChat", "getSideChatsByChatId", "addSideChatMessage",
     "combineSideChat", "deleteSideChat"}

JsToken == [kind |-> "string", val |-> "secret"]

\* The tokens a caller passes: none (absent, or the empty string) or one.
Tokens == {JsUndefined, JsEmptyString, JsToken}

Method(op) ==
    CASE op = "createSideChat" -> "POST"
      [] op = "getSideChatsByChatId" -> "GET"
      [] op = "addSideChatMessage" -> "POST"
      [] op = "combineSideChat" -> "POST"
      [] op = "deleteSideChat" -> "DELETE"

Url(op) ==
    CASE op = "createSideChat" -> "/side-chats/"
      [] op = "getSideChatsByChatId" -> "/side-chats/by-chat/{chatId}"
      [] op = "addSideChatMessage" -> "/side-chats/{sideChatId}/messages"
      [] op = "combineSideChat" -> "/side-chats/{sideChatId}/combine"
      [] op = "deleteSideChat" -> "/side-chats/{sideChatId}"

\* Only create and addMessage send a body (JSON.stringify(body)).
HasBody(op) == op \in {"createSideChat", "addSideChatMessage"}

\* The headers object with every token given the header: the spread without
\* its `token &&' guard.
Headers_AlwaysAuthorized(token) ==
    { <<"Accept", "application/json">>, <<"Content-Type", "application/json">>,
      <<"authorization", "Bearer " \o token.val>> }

\* The headers object: the spread of `token && {authorization: ...}' adds the
\* header for a truthy token and nothing for an absent or empty one.
Headers(token) ==
    { <<"Accept", "application/json">>, <<"Content-Type", "application/json">> }
        \cup (IF Truthy(token)
              THEN { <<"authorization", "Bearer " \o token.val>> }
              ELSE {})

\* fetch reads header names without regard to case.
LowerCase(name) ==
    CASE name = "Accept" -> "accept"
      [] name = "Content-Type" -> "content-type"
      [] name = "Authorization" -> "authorization"
      [] OTHER -> name

\* The values a request carries for a header name.
HeaderValues(headers, name) ==
    { h[2] : h \in { g \in headers : LowerCase(g[1]) = LowerCase(name) } }

NoResponse == [received |-> FALSE, ok |-> FALSE, parses |-> FALSE, body |-> JsNull]

VARIABLES
    apiPc,        \* where the call is: idle, fetch, then, catch, resume, settled
    apiOp,        \* the operation called
    apiError,     \* the call's local `error'
    apiRes,       \* the call's local `res' (what the awaited chain resolved to)
    apiResponse,  \* the HTTP response received, if any
    apiRejection, \* what the promise chain rejected with, for .catch
    apiFailure,   \* none, network, parse, http: how the request failed
    apiOutcome,   \* pending, resolved, thrown
    apiValue,     \* what the call resolved with or threw
    console,      \* the values logged with console.error, in order
    requests      \* the HTTP requests issued, in order

apiVars ==
    <<apiPc, apiOp, apiError, apiRes, apiResponse, apiRejection, apiFailure,
      apiOutcome, apiValue, console, requests>>

(***************************************************************************)
(* The SideChat panel.  SideChat.svelte holds two variants of the          *)
(* component: one that keeps busy flags (lines 1-159, "flags") and one     *)
(* that only emits events (lines 161-266, "events").                       *)
(***************************************************************************)
\* Bounds of the panel's model.
MaxLen == 2

MaxEvents == 2

Whitespace == {" ", "\n"}

Chars == Whitespace \cup {"a"}

RECURSIVE TrimStart(_)
TrimStart(s) ==
    IF s # << >> /\ Head(s) \in Whitespace THEN TrimStart(Tail(s)) ELSE s

RECURSIVE TrimEnd(_)
TrimEnd(s) ==
    IF s # << >> /\ s[Len(s)] \in Whitespace
    THEN TrimEnd(SubSeq(s, 1, Len(s) - 1)) ELSE s

\* String.prototype.trim: whitespace removed from both ends.
Trim(s) == TrimEnd(TrimStart(s))

\* A string is truthy when it is not empty.
StringTruthy(s) == s # << >>

ScKinds == {"send", "combine", "discard"}

VARIABLES
    scVariant,      \* flags or events: which variant of the component this is
    isOpen,         \* the prop the parent controls
    messages,       \* the prop the parent controls
    inputText,
    isStreaming,
    combineLoading, \* flags variant only
    discardLoading, \* flags variant only
    scEventCount,   \* how many events were dispatched to the parent
    scLastEvent,    \* the event dispatched last
    scInFlight,     \* per kind of intent, the parent's requests in flight
    scFailed,       \* the kinds of intent whose latest request failed
    scLast          \* the handler that ran last

scVars ==
    <<scVariant, isOpen, messages, inputText, isStreaming, combineLoading,
      discardLoading, scEventCount, scLastEvent, scInFlight, scFailed, scLast>>

(***************************************************************************)
(* StepControls.  Two variants exist: one that calls the backend and keeps *)
(* a loading flag (unnamed/part_000, "api") and one that only emits events *)
(* (StepControls.svelte, "events").                                        *)
(***************************************************************************)
\* Bounds of the StepControls model: the handler invocations and the steps.
MaxStepCalls == 2

MaxSteps == 2

ChatIds == {"", "chat-1"}

VARIABLES
    stVariant,     \* api or events
    chatId,        \* prop (api variant)
    currentStep,   \* prop
    totalSteps,    \* prop: the controls are rendered when it is positive
    loading,       \* api variant
    nextInFlight,  \* the nextStep requests in flight
    allInFlight,   \* the getAllSteps requests in flight
    stNextCalls,   \* how many times handleNext was invoked
    stAllCalls,    \* how many times handleShowAll was invoked
    stEventCount,  \* how many events were dispatched to the parent
    stLastEvent,   \* the event dispatched last
    stLogged,      \* how many errors were logged with console.error
    stLastLog      \* the message logged last

stVars ==
    <<stVariant, chatId, currentStep, totalSteps, loading, nextInFlight,
      allInFlight, stNextCalls, stAllCalls, stEventCount, stLastEvent, stLogged,
      stLastLog>>

(***************************************************************************)
(* The TopicSplit banner (unnamed/part_001).  progress is a JavaScript     *)
(* number: the countdown is computed in IEEE-754 double arithmetic, here   *)
(* on significands held as sequences of bits.                              *)
(***************************************************************************)
\* The bits of a double's significand.
MantissaBits == 53

\* The one element of a set of one element.  Binding a value as the element
\* of a set computes it once, however often it is then used.
Only(S) == CHOOSE x \in S : TRUE

Zeros(k) == [i \in 1..k |-> 0]

\* b without its leading zeros.
Strip(b) ==
    IF \A i \in 1..Len(b) : b[i] = 0 THEN << >>
    ELSE SubSeq(b, CHOOSE i \in 1..Len(b) : b[i] = 1 /\ \A j \in 1..(i - 1) : b[j] = 0,
                Len(b))

\* The w low bits of n, most significant first.
BitsOfWidth(n, w) == SubSeq([i \in 1..w |-> (n \div 2^(w - i)) % 2], 1, w)

\* The bits of a natural number below 2^31, most significant first.
BitsOf(n) == Only({ Strip(b) : b \in {BitsOfWidth(n, 31)} })

BigLess(a, b) ==
    \/ Len(a) < Len(b)
    \/ /\ Len(a) = Len(b)
       /\ \E i \in 1..Len(a) : a[i] < b[i] /\ \A j \in 1..(i - 1) : a[j] = b[j]

\* Whether x + y carries into place i: a lower place j has both bits set, and
\* the places between have one bit set each.
AddCarry(x, y, i) ==
    \E j \in (i + 1)..Len(x) :
        /\ x[j] = 1 /\ y[j] = 1
        /\ \A k \in (i + 1)..(j - 1) : x[k] + y[k] = 1

\* a + b.
BigAdd(a, b) ==
    LET n == 1 + (IF Len(a) > Len(b) THEN Len(a) ELSE Len(b))
    IN Only({ Only({ Strip(sum) :
                     sum \in { SubSeq([i \in 1..n |->
                                          (x[i] + y[i] + (IF AddCarry(x, y, i) THEN 1 ELSE 0)) % 2],
                                      1, n) } }) :
              x \in { Zeros(n - Len(a)) \o a }, y \in { Zeros(n - Len(b)) \o b } })

\* Whether x - y borrows from place i: a lower place j has x's bit below y's,
\* and the places between have equal bits.
SubBorrow(x, y, i) ==
    \E j \in (i + 1)..Len(x) :
        /\ x[j] < y[j]
        /\ \A k \in (i + 1)..(j - 1) : x[k] = y[k]

\* a - b, for a >= b.
BigSub(a, b) ==
    LET n == Len(a)
    IN Only({ Only({ Strip(diff) :
                     diff \in { SubSeq([i \in 1..n |->
                                           (a[i] + 2 - y[i] - (IF SubBorrow(a, y, i) THEN 1 ELSE 0)) % 2],
                                       1, n) } }) :
              y \in { Zeros(n - Len(b)) \o b } })

RECURSIVE BigMulSmall(_, _)
\* a * c for a small natural number c, by shift and add over the bits of c.
BigMulSmall(a, c) ==
    IF c = 0 THEN << >>
    ELSE Only({ IF c % 2 = 1 THEN BigAdd(rest, a) ELSE rest :
                rest \in { Only({ BigMulSmall(shifted, c \div 2) : shifted \in {a \o <<0>>} }) } })

\* The base-256 digits the long division computes after the point.
DivChunks == 8

RECURSIVE DivRem(_, _, _)
\* (a * 256^c) mod t.
DivRem(a, t, c) == IF c = 0 THEN a % t ELSE (DivRem(a, t, c - 1) * 256) % t

\* The c-th base-256 digit of a / t after the point.
DivDigit(a, t, c) == BitsOfWidth((DivRem(a, t, c - 1) * 256) \div t, 8)

\* floor(a * 256^DivChunks / t), for natural numbers a and 0 < t < 2^23, by
\* long division in base 256.
BigDivQuotient(a, t) ==
    BitsOfWidth(a \div t, 31)
        \o DivDigit(a, t, 1) \o DivDigit(a, t, 2) \o DivDigit(a, t, 3) \o DivDigit(a, t, 4)
        \o DivDigit(a, t, 5) \o DivDigit(a, t, 6) \o DivDigit(a, t, 7) \o DivDigit(a, t, 8)

\* A double is its sign and, unless it is zero, a significand m of MantissaBits
\* bits (most significant first, the first one set) and an exponent e: its
\* value is m * 2^e.
FZero == [neg |-> FALSE, m |-> << >>, e |-> 0]

\* FRound for bits without leading zeros.
FRoundStripped(neg, b, e, sticky) ==
    LET n == Len(b)
    IN IF n = 0 THEN FZero
       ELSE IF n <= MantissaBits
       THEN [neg |-> neg, m |-> b \o Zeros(MantissaBits - n), e |-> e - (MantissaBits - n)]
       ELSE LET up == /\ b[MantissaBits + 1] = 1
                      /\ \/ sticky
                         \/ \E i \in (MantissaBits + 2)..n : b[i] = 1
                         \/ b[MantissaBits] = 1
            IN Only({ IF Len(m1) > MantissaBits
                      THEN [neg |-> neg, m |-> SubSeq(m1, 1, MantissaBits),
                            e |-> e + (n - MantissaBits) + 1]
                      ELSE [neg |-> neg, m |-> m1, e |-> e + (n - MantissaBits)] :
                      m1 \in { IF up
                               THEN Only({ BigAdd(top, <<1>>) : top \in {SubSeq(b, 1, MantissaBits)} })
                               ELSE SubSeq(b, 1, MantissaBits) } })

\* The double nearest to bits * 2^e (plus a little, when sticky), ties to even.
FRound(neg, bits, e, sticky) ==
    Only({ FRoundStripped(neg, b, e, sticky) : b \in { Only({ Strip(v) : v \in {bits} }) } })

\* The double of a natural number.
FFromNat(n) == FRound(FALSE, BitsOf(n), 0, FALSE)

\* a / t in double arithmetic, for natural numbers a and t.
FDivNat(a, t) ==
    FRound(FALSE, BigDivQuotient(a, t), 0 - 8 * DivChunks, DivRem(a, t, DivChunks) # 0)

\* x * c in double arithmetic, for a natural number c.
FMulNat(x, c) == FRound(x.neg, BigMulSmall(x.m, c), x.e, FALSE)

\* The lesser exponent of x and y, zero apart.
FMinExp(x, y) ==
    IF x.m = << >> THEN y.e
    ELSE IF y.m = << >> THEN x.e
    ELSE IF x.e < y.e THEN x.e ELSE y.e

\* The significand of x at exponent e <= x.e.
FShifted(x, e) == IF x.m = << >> THEN << >> ELSE x.m \o Zeros(x.e - e)

\* x - y in double arithmetic, for x and y not negative.
FSub(x, y) ==
    Only({ IF BigLess(X, Y)
           THEN FRound(TRUE, BigSub(Y, X), FMinExp(x, y), FALSE)
           ELSE FRound(FALSE, BigSub(X, Y), FMinExp(x, y), FALSE) :
           X \in { FShifted(x, FMinExp(x, y)) }, Y \in { FShifted(y, FMinExp(x, y)) } })

\* x <= 0.
FLeqZero(x) == x.m = << >> \/ x.neg

\* `const tickMs = 50'.
TickMs == 50

\* `export let timeoutMs: number = 5000'.
DefaultTimeoutMs == 5000

\* The timeouts a parent passes: the default and shorter ones.
Timeouts == {100, 150, 200, DefaultTimeoutMs}

\* Bound of the banner's model: the tick periods observed past the deadline.
MaxExtraTicks == 2

\* The tick periods that make up timeoutMs.
NominalTicks(t) == (t + TickMs - 1) \div TickMs

VARIABLES
    tsPhase,         \* created, mounted, destroyed
    timeoutMs,       \* prop
    progress,
    decrement,       \* the `decrement' the interval callback closes over
    intervalId,
    intervalActive,  \* the interval is set and not cleared
    visible,
    tsConfirms,      \* the confirmSplit events dispatched
    tsCancels,       \* the cancelSplit events dispatched
    tsTicks,         \* how many times the interval callback ran
    tsElapsed,       \* the tick periods elapsed since the mount
    tsCancelInvoked  \* Cancel was clicked

tsVars ==
    <<tsPhase, timeoutMs, progress, decrement, intervalId, intervalActive,
      visible, tsConfirms, tsCancels, tsTicks, tsElapsed, tsCancelInvoked>>

vars == <<apiVars, scVars, stVars, tsVars>>

\* What the steps of one component leave unchanged: the other components.
apiOthers == <<scVars, stVars, tsVars>>

scOthers == <<apiVars, stVars, tsVars>>

stOthers == <<apiVars, scVars, tsVars>>

tsOthers == <<apiVars, scVars, stVars>>

ApiInit ==
    /\ apiPc = "idle"
    /\ apiOp = "none"
    /\ apiError = JsNull
    /\ apiRes = JsNull
    /\ apiResponse = NoResponse
    /\ apiRejection = JsNull
    /\ apiFailure = "none"
    /\ apiOutcome = "pending"
    /\ apiValue = JsNull
    /\ console = << >>
    /\ requests = << >>

\* The call starts: `let error = null', and fetch issues the request.
ApiCall(op, token) ==
    /\ UNCHANGED apiOthers
    /\ apiPc = "idle"
    /\ apiPc' = "fetch"
    /\ apiOp' = op
    /\ apiError' = JsNull
    /\ requests' = Append(requests,
                          [url |-> Url(op), method |-> Method(op),
                           headers |-> Headers(token), body |-> HasBody(op)])
    /\ UNCHANGED <<apiRes, apiResponse, apiRejection, apiFailure, apiOutcome,
                   apiValue, console>>

\* fetch rejects: the .then callback is skipped and the chain rejects with e.
FetchRejects(e) ==
    /\ UNCHANGED apiOthers
    /\ apiPc = "fetch"
    /\ apiPc' = "catch"
    /\ apiRejection' = e
    /\ apiFailure' = "network"
    /\ UNCHANGED <<apiOp, apiError, apiRes, apiResponse, apiOutcome, apiValue,
                   console, requests>>

\* fetch resolves with a response; its body parses to a JSON value or not.
FetchResolves(ok, parses, body) ==
    /\ UNCHANGED apiOthers
    /\ apiPc = "fetch"
    /\ apiPc' = "then"
    /\ apiResponse' = [received |-> TRUE, ok |-> ok, parses |-> parses, body |-> body]
    /\ UNCHANGED <<apiOp, apiError, apiRes, apiRejection, apiFailure, apiOutcome,
                   apiValue, console, requests>>

\* The .then callback: `if (!res.ok) throw await res.json(); return res.json();'
ThenCallback ==
    /\ UNCHANGED apiOthers
    /\ apiPc = "then"
    /\ IF ~apiResponse.parses
       THEN /\ apiPc' = "catch"
            /\ apiRejection' = ParseError
            /\ apiFailure' = "parse"
            /\ UNCHANGED apiRes
       ELSE IF ~apiResponse.ok
       THEN /\ apiPc' = "catch"
            /\ apiRejection' = apiResponse.body
            /\ apiFailure' = "http"
            /\ UNCHANGED apiRes
       ELSE /\ apiPc' = "resume"
            /\ apiRes' = apiResponse.body
            /\ UNCHANGED <<apiRejection, apiFailure>>
    /\ UNCHANGED <<apiOp, apiError, apiResponse, apiOutcome, apiValue, console,
                   requests>>

\* The .catch callback with a retry: the request is issued once more.
CatchCallback_Retrying ==
    /\ UNCHANGED apiOthers
    /\ apiPc = "catch"
    /\ apiPc' = "resume"
    /\ apiError' = apiRejection
    /\ console' = Append(console, apiRejection)
    /\ apiRes' = JsNull
    /\ requests' = Append(requests, requests[Len(requests)])
    /\ UNCHANGED <<apiOp, apiResponse, apiRejection, apiFailure, apiOutcome,
                   apiValue>>

\* The .catch callback: `error = err; console.error(err); return null;'
CatchCallback ==
    /\ UNCHANGED apiOthers
    /\ apiPc = "catch"
    /\ apiPc' = "resume"
    /\ apiError' = apiRejection
    /\ console' = Append(console, apiRejection)
    /\ apiRes' = JsNull
    /\ UNCHANGED <<apiOp, apiResponse, apiRejection, apiFailure, apiOutcome,
                   apiValue, requests>>

\* After the await: `if (error) { throw error; } return res;'
ApiResume ==
    /\ UNCHANGED apiOthers
    /\ apiPc = "resume"
    /\ apiPc' = "settled"
    /\ IF Truthy(apiError)
       THEN apiOutcome' = "thrown" /\ apiValue' = apiError
       ELSE apiOutcome' = "resolved" /\ apiValue' = apiRes
    /\ UNCHANGED <<apiOp, apiError, apiRes, apiResponse, apiRejection, apiFailure,
                   console, requests>>

(***************************************************************************)
(* The SideChat panel: handlers and controls.                              *)
(***************************************************************************)
NoEvent == [type |-> "none", content |-> << >>]

ScInit ==
    /\ scVariant \in {"flags", "events"}
    /\ isOpen = FALSE
    /\ messages = << >>
    /\ inputText = << >>
    /\ isStreaming = FALSE
    /\ combineLoading = FALSE
    /\ discardLoading = FALSE
    /\ scEventCount = 0
    /\ scLastEvent = NoEvent
    /\ scInFlight = [k \in ScKinds |-> 0]
    /\ scFailed = {}
    /\ scLast = "init"

\* The panel as the other components' specifications leave it.
ScIdle == ScInit /\ scVariant = "flags"

\* The Send button's `disabled={!inputText.trim() || isStreaming}'.
SendDisabled == ~StringTruthy(Trim(inputText)) \/ isStreaming

\* The Combine and Discard buttons as they would be without a disabled
\* binding.
CombineDiscardDisabled_Never == FALSE

\* The Combine and Discard buttons' `disabled={combineLoading || discardLoading}';
\* the buttons of the events variant have no disabled binding.
CombineDiscardDisabled == scVariant = "flags" /\ (combineLoading \/ discardLoading)

\* dispatch(type, detail): the event reaches the parent.
Dispatch(type, content) ==
    /\ scEventCount' = scEventCount + 1
    /\ scLastEvent' = [type |-> type, content |-> content]

\* The parent coordinator, on an intent: it starts the request for it.
ParentOnIntent(kind) ==
    /\ scInFlight' = [scInFlight EXCEPT ![kind] = @ + 1]
    /\ scFailed' = scFailed \ {kind}

\* handleSend as it would be if it dispatched the input as typed.
HandleSend_Untrimmed ==
    IF ~StringTruthy(Trim(inputText)) \/ isStreaming
    THEN UNCHANGED <<inputText, scEventCount, scLastEvent, scInFlight, scFailed,
                     isOpen, messages>>
    ELSE /\ Dispatch("sendMessage", inputText)
         /\ ParentOnIntent("send")
         /\ inputText' = << >>
         /\ UNCHANGED <<isOpen, messages>>

\* handleSend (both variants; the flags variant also scrolls the view).
HandleSend ==
    IF ~StringTruthy(Trim(inputText)) \/ isStreaming
    THEN UNCHANGED <<inputText, scEventCount, scLastEvent, scInFlight, scFailed,
                     isOpen, messages>>
    ELSE /\ Dispatch("sendMessage", Trim(inputText))
         /\ ParentOnIntent("send")
         /\ inputText' = << >>
         /\ UNCHANGED <<isOpen, messages>>

\* handleCombine: the flags variant sets its busy flag, then both dispatch.
HandleCombine ==
    /\ combineLoading' = (IF scVariant = "flags" THEN TRUE ELSE combineLoading)
    /\ Dispatch("combine", << >>)
    /\ ParentOnIntent("combine")
    /\ UNCHANGED <<isOpen, messages>>

\* handleDiscard: the flags variant sets its busy flag, then both dispatch.
HandleDiscard ==
    /\ discardLoading' = (IF scVariant = "flags" THEN TRUE ELSE discardLoading)
    /\ Dispatch("discard", << >>)
    /\ ParentOnIntent("discard")
    /\ UNCHANGED <<isOpen, messages>>

\* handleClose as it would be if the panel closed itself.
HandleClose_ClosesPanel ==
    /\ Dispatch("close", << >>)
    /\ isOpen' = FALSE
    /\ UNCHANGED messages

\* handleClose (flags variant).
HandleClose ==
    /\ Dispatch("close", << >>)
    /\ UNCHANGED <<isOpen, messages>>

\* The user types a character at the end of the textarea (bind:value).
TypeChar(c) ==
    /\ UNCHANGED scOthers
    /\ isOpen
    /\ Len(inputText) < MaxLen
    /\ inputText' = Append(inputText, c)
    /\ scLast' = "input"
    /\ UNCHANGED <<scVariant, isOpen, messages, isStreaming, combineLoading,
                   discardLoading, scEventCount, scLastEvent, scInFlight, scFailed>>

\* The user deletes the last character of the textarea.
Backspace ==
    /\ UNCHANGED scOthers
    /\ isOpen
    /\ inputText # << >>
    /\ inputText' = SubSeq(inputText, 1, Len(inputText) - 1)
    /\ scLast' = "input"
    /\ UNCHANGED <<scVariant, isOpen, messages, isStreaming, combineLoading,
                   discardLoading, scEventCount, scLastEvent, scInFlight, scFailed>>

\* A click on the Send button, which is clickable unless disabled.
ClickSend ==
    /\ UNCHANGED scOthers
    /\ isOpen
    /\ ~SendDisabled
    /\ scEventCount < MaxEvents
    /\ HandleSend
    /\ scLast' = "handleSend"
    /\ UNCHANGED <<scVariant, isStreaming, combineLoading, discardLoading>>

\* handleKeydown on the Enter key: without shift it submits; with shift the
\* handler does nothing and the textarea takes the newline.
KeydownEnter(shift) ==
    /\ UNCHANGED scOthers
    /\ isOpen
    /\ scEventCount < MaxEvents
    /\ IF ~shift
       THEN HandleSend /\ scLast' = "handleSend"
       ELSE /\ Len(inputText) < MaxLen
            /\ inputText' = Append(inputText, "\n")
            /\ scLast' = "input"
            /\ UNCHANGED <<scEventCount, scLastEvent, scInFlight, scFailed,
                           isOpen, messages>>
    /\ UNCHANGED <<scVariant, isStreaming, combineLoading, discardLoading>>

ClickCombine ==
    /\ UNCHANGED scOthers
    /\ isOpen
    /\ ~CombineDiscardDisabled
    /\ scEventCount < MaxEvents
    /\ HandleCombine
    /\ scLast' = "handleCombine"
    /\ UNCHANGED <<scVariant, inputText, isStreaming, discardLoading>>

ClickDiscard ==
    /\ UNCHANGED scOthers
    /\ isOpen
    /\ ~CombineDiscardDisabled
    /\ scEventCount < MaxEvents
    /\ HandleDiscard
    /\ scLast' = "handleDiscard"
    /\ UNCHANGED <<scVariant, inputText, isStreaming, combineLoading>>

\* Only the flags variant renders a Close button.
ClickClose ==
    /\ UNCHANGED scOthers
    /\ isOpen
    /\ scVariant = "flags"
    /\ scEventCount < MaxEvents
    /\ HandleClose
    /\ scLast' = "handleClose"
    /\ UNCHANGED <<scVariant, inputText, isStreaming, combineLoading,
                   discardLoading, scInFlight, scFailed>>

\* The parent's request for an intent settles.  A message that was sent joins
\* the messages prop (its content is not modelled: the panel only renders
\* it); a combine or a discard that succeeded closes the panel; after a
\* failure the panel stays as it is.
ParentSettles(kind, ok) ==
    /\ UNCHANGED scOthers
    /\ scInFlight[kind] > 0
    /\ scInFlight' = [scInFlight EXCEPT ![kind] = @ - 1]
    /\ scFailed' = (IF kind = "send" THEN scFailed
                    ELSE IF ok THEN scFailed \ {kind} ELSE scFailed \cup {kind})
    /\ isOpen' = (IF ok /\ kind \in {"combine", "discard"} THEN FALSE ELSE isOpen)
    /\ messages' = (IF ok /\ kind = "send"
                    THEN Append(messages, [role |-> "user", content |-> <<"a">>])
                    ELSE messages)
    /\ scLast' = "parent"
    /\ UNCHANGED <<scVariant, inputText, isStreaming, combineLoading,
                   discardLoading, scEventCount, scLastEvent>>

\* The parent opens or closes the panel through the isOpen prop.
ParentSetOpen(b) ==
    /\ UNCHANGED scOthers
    /\ isOpen # b
    /\ isOpen' = b
    /\ scLast' = "parent"
    /\ UNCHANGED <<scVariant, messages, inputText, isStreaming, combineLoading,
                   discardLoading, scEventCount, scLastEvent, scInFlight, scFailed>>

(***************************************************************************)
(* StepControls: handlers and controls.                                    *)
(***************************************************************************)
StInit ==
    /\ stVariant \in {"api", "events"}
    /\ chatId = ""
    /\ currentStep = 1
    /\ totalSteps = 0
    /\ loading = FALSE
    /\ nextInFlight = 0
    /\ allInFlight = 0
    /\ stNextCalls = 0
    /\ stAllCalls = 0
    /\ stEventCount = 0
    /\ stLastEvent = [type |-> "none", detail |-> "none"]
    /\ stLogged = 0
    /\ stLastLog = "none"

\* StepControls as the other components' specifications leave it.
StIdle == StInit /\ stVariant = "api"

\* `{#if totalSteps > 0}': the controls exist only then.
StRendered == totalSteps > 0

\* The Next button's `disabled={loading}' (api variant).
NextDisabled == stVariant = "api" /\ loading

StDispatch(type, detail) ==
    /\ stEventCount' = stEventCount + 1
    /\ stLastEvent' = [type |-> type, detail |-> detail]

\* handleNext as it would be without the loading guard.
HandleNext_NoLoadingGuard ==
    IF stVariant = "api"
    THEN IF chatId = ""
         THEN UNCHANGED <<loading, nextInFlight, stEventCount, stLastEvent>>
         ELSE /\ loading' = TRUE
              /\ nextInFlight' = nextInFlight + 1
              /\ UNCHANGED <<stEventCount, stLastEvent>>
    ELSE /\ StDispatch("nextStep", "none")
         /\ UNCHANGED <<loading, nextInFlight>>

\* handleNext, up to its await.  api: `if (loading || !chatId) return; loading
\* = true;' and the nextStep request is made.  events: dispatch('nextStep').
HandleNext ==
    IF stVariant = "api"
    THEN IF loading \/ chatId = ""
         THEN UNCHANGED <<loading, nextInFlight, stEventCount, stLastEvent>>
         ELSE /\ loading' = TRUE
              /\ nextInFlight' = nextInFlight + 1
              /\ UNCHANGED <<stEventCount, stLastEvent>>
    ELSE /\ StDispatch("nextStep", "none")
         /\ UNCHANGED <<loading, nextInFlight>>

\* handleNext after its await as it would be if loading were cleared on the
\* success path only, not in a finally block.
NextSettles_NoFinally(ok) ==
    /\ UNCHANGED stOthers
    /\ nextInFlight > 0
    /\ nextInFlight' = nextInFlight - 1
    /\ IF ok
       THEN /\ StDispatch("nextStep", "result")
            /\ loading' = FALSE
            /\ UNCHANGED <<stLogged, stLastLog>>
       ELSE /\ stLogged' = stLogged + 1
            /\ stLastLog' = "nextStep failed:"
            /\ UNCHANGED <<stEventCount, stLastEvent, loading>>
    /\ UNCHANGED <<stVariant, chatId, currentStep, totalSteps, allInFlight,
                   stNextCalls, stAllCalls>>

\* handleNext after its await as it would be if the dispatch followed the
\* try block instead of being inside it.
NextSettles_DispatchAfterTry(ok) ==
    /\ UNCHANGED stOthers
    /\ nextInFlight > 0
    /\ nextInFlight' = nextInFlight - 1
    /\ IF ok
       THEN StDispatch("nextStep", "result") /\ UNCHANGED <<stLogged, stLastLog>>
       ELSE /\ stLogged' = stLogged + 1
            /\ stLastLog' = "nextStep failed:"
            /\ StDispatch("nextStep", "none")
    /\ loading' = FALSE
    /\ UNCHANGED <<stVariant, chatId, currentStep, totalSteps, allInFlight,
                   stNextCalls, stAllCalls>>

\* handleNext after its await: on success it dispatches the result, on
\* failure it logs, and `finally { loading = false; }' in both cases.
NextSettles(ok) ==
    /\ UNCHANGED stOthers
    /\ nextInFlight > 0
    /\ nextInFlight' = nextInFlight - 1
    /\ IF ok
       THEN StDispatch("nextStep", "result") /\ UNCHANGED <<stLogged, stLastLog>>
       ELSE /\ stLogged' = stLogged + 1
            /\ stLastLog' = "nextStep failed:"
            /\ UNCHANGED <<stEventCount, stLastEvent>>
    /\ loading' = FALSE
    /\ UNCHANGED <<stVariant, chatId, currentStep, totalSteps, allInFlight,
                   stNextCalls, stAllCalls>>

\* handleShowAll, up to its await.  api: `if (!chatId) return;' and the
\* getAllSteps request is made.  events: dispatch('showAllSteps').
HandleShowAll ==
    IF stVariant = "api"
    THEN IF chatId = ""
         THEN UNCHANGED <<allInFlight, stEventCount, stLastEvent>>
         ELSE /\ allInFlight' = allInFlight + 1
              /\ UNCHANGED <<stEventCount, stLastEvent>>
    ELSE /\ StDispatch("showAllSteps", "none")
         /\ UNCHANGED allInFlight

\* handleShowAll after its await: the step list is dispatched, or the error
\* is logged.
ShowAllSettles(ok) ==
    /\ UNCHANGED stOthers
    /\ allInFlight > 0
    /\ allInFlight' = allInFlight - 1
    /\ IF ok
       THEN StDispatch("showAllSteps", "steps") /\ UNCHANGED <<stLogged, stLastLog>>
       ELSE /\ stLogged' = stLogged + 1
            /\ stLastLog' = "getAllSteps failed:"
            /\ UNCHANGED <<stEventCount, stLastEvent>>
    /\ UNCHANGED <<stVariant, chatId, currentStep, totalSteps, loading,
                   nextInFlight, stNextCalls, stAllCalls>>

\* A click on the Next button, which is clickable unless disabled.
ClickNext ==
    /\ UNCHANGED stOthers
    /\ StRendered
    /\ ~NextDisabled
    /\ stNextCalls < MaxStepCalls
    /\ stNextCalls' = stNextCalls + 1
    /\ HandleNext
    /\ UNCHANGED <<stVariant, chatId, currentStep, totalSteps, allInFlight,
                   stAllCalls, stLogged, stLastLog>>

\* handleNext invoked whatever the button shows (a click that was already
\* under way when the button was disabled, a synthetic event).
InvokeNext ==
    /\ UNCHANGED stOthers
    /\ StRendered
    /\ stNextCalls < MaxStepCalls
    /\ stNextCalls' = stNextCalls + 1
    /\ HandleNext
    /\ UNCHANGED <<stVariant, chatId, currentStep, totalSteps, allInFlight,
                   stAllCalls, stLogged, stLastLog>>

\* A click on "Show all steps", which is never disabled.
ClickShowAll ==
    /\ UNCHANGED stOthers
    /\ StRendered
    /\ stAllCalls < MaxStepCalls
    /\ stAllCalls' = stAllCalls + 1
    /\ HandleShowAll
    /\ UNCHANGED <<stVariant, chatId, currentStep, totalSteps, loading,
                   nextInFlight, stNextCalls, stLogged, stLastLog>>

\* The parent sets the props.
StSetProps(id, current, total) ==
    /\ UNCHANGED stOthers
    /\ <<id, current, total>> # <<chatId, currentStep, totalSteps>>
    /\ chatId' = id
    /\ currentStep' = current
    /\ totalSteps' = total
    /\ UNCHANGED <<stVariant, loading, nextInFlight, allInFlight, stNextCalls,
                   stAllCalls, stEventCount, stLastEvent, stLogged, stLastLog>>

(***************************************************************************)
(* The TopicSplit banner: lifecycle, timer and handlers.                   *)
(***************************************************************************)
TsInit ==
    /\ tsPhase = "created"
    /\ timeoutMs \in Timeouts
    /\ progress = FFromNat(100)
    /\ decrement = FZero
    /\ intervalId = JsUndefined
    /\ intervalActive = FALSE
    /\ visible = TRUE
    /\ tsConfirms = 0
    /\ tsCancels = 0
    /\ tsTicks = 0
    /\ tsElapsed = 0
    /\ tsCancelInvoked = FALSE

\* The banner as the other components' specifications leave it.
TsIdle == TsInit /\ timeoutMs = DefaultTimeoutMs

\* clearInterval(id): the interval of that id stops; clearInterval(undefined)
\* does nothing.
ClearInterval(id) == intervalActive' = (IF id = JsUndefined THEN intervalActive ELSE FALSE)

\* confirmSplit as it would be without hiding the banner.
ConfirmSplit_StaysVisible ==
    /\ UNCHANGED visible
    /\ tsConfirms' = tsConfirms + 1

\* confirmSplit.
ConfirmSplit ==
    /\ visible' = FALSE
    /\ tsConfirms' = tsConfirms + 1

\* cancelSplit as it would be without its clearInterval.
CancelSplit_NoClear ==
    /\ UNCHANGED intervalActive
    /\ visible' = FALSE
    /\ tsCancels' = tsCancels + 1

\* cancelSplit.
CancelSplit ==
    /\ ClearInterval(intervalId)
    /\ visible' = FALSE
    /\ tsCancels' = tsCancels + 1

\* The interval callback as it would be without its clearInterval.
TickCallback_NoClear ==
    LET next == FSub(progress, decrement)
    IN IF FLeqZero(next)
       THEN /\ progress' = FZero
            /\ UNCHANGED intervalActive
            /\ ConfirmSplit
       ELSE /\ progress' = next
            /\ UNCHANGED <<intervalActive, visible, tsConfirms>>

\* The interval callback: `progress -= decrement; if (progress <= 0) {
\* progress = 0; clearInterval(intervalId); confirmSplit(); }'
TickCallback ==
    LET next == FSub(progress, decrement)
    IN IF FLeqZero(next)
       THEN /\ progress' = FZero
            /\ ClearInterval(intervalId)
            /\ ConfirmSplit
       ELSE /\ progress' = next
            /\ UNCHANGED <<intervalActive, visible, tsConfirms>>

\* onDestroy as it would be without its clearInterval.
OnDestroy_NoClear == UNCHANGED intervalActive

\* onDestroy: `if (intervalId) clearInterval(intervalId);'
OnDestroy ==
    IF Truthy(intervalId) THEN ClearInterval(intervalId) ELSE UNCHANGED intervalActive

\* onMount: the decrement is computed and the interval is set.  setInterval
\* returns a positive id.
Mount ==
    /\ UNCHANGED tsOthers
    /\ tsPhase = "created"
    /\ tsPhase' = "mounted"
    /\ decrement' = FMulNat(FDivNat(TickMs, timeoutMs), 100)
    /\ intervalId' = JsOne
    /\ intervalActive' = TRUE
    /\ UNCHANGED <<timeoutMs, progress, visible, tsConfirms, tsCancels, tsTicks,
                   tsElapsed, tsCancelInvoked>>

\* A tick period passes while the interval is set: its callback runs.
Tick ==
    /\ UNCHANGED tsOthers
    /\ intervalActive
    /\ tsElapsed < NominalTicks(timeoutMs) + MaxExtraTicks
    /\ TickCallback
    /\ tsTicks' = tsTicks + 1
    /\ tsElapsed' = tsElapsed + 1
    /\ UNCHANGED <<tsPhase, timeoutMs, decrement, intervalId, tsCancels,
                   tsCancelInvoked>>

\* A tick period passes while no interval is set: nothing runs.
TimePasses ==
    /\ UNCHANGED tsOthers
    /\ tsPhase # "created"
    /\ ~intervalActive
    /\ tsElapsed < NominalTicks(timeoutMs) + MaxExtraTicks
    /\ tsElapsed' = tsElapsed + 1
    /\ UNCHANGED <<tsPhase, timeoutMs, progress, decrement, intervalId,
                   intervalActive, visible, tsConfirms, tsCancels, tsTicks,
                   tsCancelInvoked>>

\* A click on the Cancel button, which exists while the banner is mounted and
\* visible.
ClickCancel ==
    /\ UNCHANGED tsOthers
    /\ tsPhase = "mounted"
    /\ visible
    /\ CancelSplit
    /\ tsCancelInvoked' = TRUE
    /\ UNCHANGED <<tsPhase, timeoutMs, progress, decrement, intervalId,
                   tsConfirms, tsTicks, tsElapsed>>

\* The component is destroyed.
Destroy ==
    /\ UNCHANGED tsOthers
    /\ tsPhase = "mounted"
    /\ tsPhase' = "destroyed"
    /\ OnDestroy
    /\ UNCHANGED <<timeoutMs, progress, decrement, intervalId, visible,
                   tsConfirms, tsCancels, tsTicks, tsElapsed, tsCancelInvoked>>

(***************************************************************************)
(* The specifications, one per component.                                  *)
(***************************************************************************)
ApiNext ==
    \/ \E op \in ApiOps, token \in Tokens : ApiCall(op, token)
    \/ \E e \in NetworkErrors : FetchRejects(e)
    \/ \E ok \in BOOLEAN, body \in JsonValues : FetchResolves(ok, TRUE, body)
    \/ \E ok \in BOOLEAN : FetchResolves(ok, FALSE, JsNull)
    \/ ThenCallback
    \/ CatchCallback
    \/ ApiResume

InitApi == ApiInit /\ ScIdle /\ StIdle /\ TsIdle

SpecApi == InitApi /\ [][ApiNext]_vars

ScNext ==
    \/ \E c \in Chars : TypeChar(c)
    \/ Backspace
    \/ ClickSend
    \/ \E shift \in BOOLEAN : KeydownEnter(shift)
    \/ ClickCombine
    \/ ClickDiscard
    \/ ClickClose
    \/ \E kind \in ScKinds, ok \in BOOLEAN : ParentSettles(kind, ok)
    \/ \E b \in BOOLEAN : ParentSetOpen(b)

InitSideChat == ScInit /\ ApiInit /\ StIdle /\ TsIdle

SpecSideChat == InitSideChat /\ [][ScNext]_vars

StNext ==
    \/ ClickNext
    \/ InvokeNext
    \/ \E ok \in BOOLEAN : NextSettles(ok)
    \/ ClickShowAll
    \/ \E ok \in BOOLEAN : ShowAllSettles(ok)
    \/ \E id \in ChatIds, total \in 0..MaxSteps, current \in 1..MaxSteps :
           StSetProps(id, current, total)

InitStep == StInit /\ ApiInit /\ ScIdle /\ TsIdle

SpecStep == InitStep /\ [][StNext]_vars

TsNext ==
    \/ Mount
    \/ Tick
    \/ TimePasses
    \/ ClickCancel
    \/ Destroy

InitTopic == TsInit /\ ApiInit /\ ScIdle /\ StIdle

SpecTopic == InitTopic /\ [][TsNext]_vars

\* The browser runs onMount after the component is created, and runs the
\* callback of an interval that is set every tick period.
SpecTopicFair == InitTopic /\ [][TsNext]_vars /\ WF_vars(Mount) /\ WF_vars(Tick)

(***************************************************************************)
(* C1: whenever the response has a non-success status and its body parses  *)
(* to a JSON value b, the call throws exactly b and does not resolve, for  *)
(* every JSON value b, null, false, 0 and the empty string included.       *)
(***************************************************************************)
C1_ErrorBodyIsThrown ==
    (apiPc = "settled" /\ apiResponse.received /\ ~apiResponse.ok /\ apiResponse.parses)
        => (apiOutcome = "thrown" /\ apiValue = apiResponse.body)

(***************************************************************************)
(* C2: when fetch rejects or parsing the body fails, with error e, e is    *)
(* logged and then the call throws e; after any failure (network, parse or *)
(* non-success status) the call never resolves with a value; whatever is   *)
(* thrown was logged before.                                               *)
(***************************************************************************)
C2_FailureIsLoggedAndThrown ==
    /\ (apiPc = "settled" /\ apiFailure \in {"network", "parse"})
           => (apiOutcome = "thrown" /\ apiValue = apiRejection
               /\ console = <<apiRejection>>)
    /\ (apiPc = "settled" /\ apiFailure # "none") => apiOutcome # "resolved"
    /\ apiOutcome = "thrown" => (\E i \in 1..Len(console) : console[i] = apiValue)

(***************************************************************************)
(* C3: in the SideChat panel that keeps busy flags, once the request that  *)
(* Combine or Discard triggered has failed and the panel is still open,    *)
(* with no combine or discard request in flight, the busy flags are reset: *)
(* the Combine and Discard controls are not disabled.                      *)
(***************************************************************************)
C3_BusyFlagsAreReset ==
    (/\ scVariant = "flags"
     /\ isOpen
     /\ scFailed # {}
     /\ scInFlight["combine"] = 0
     /\ scInFlight["discard"] = 0)
        => (~combineLoading /\ ~discardLoading /\ ~CombineDiscardDisabled)

(***************************************************************************)
(* C7: each action of the SideChat panel (send, combine, discard) is       *)
(* serialized: at most one request per action is in flight at a time, no   *)
(* second intent of a kind being emitted before the first has completed.   *)
(***************************************************************************)
C7_OneRequestPerAction == \A kind \in ScKinds : scInFlight[kind] <= 1

(***************************************************************************)
(* C8: in StepControls, loading is true only while a nextStep request is   *)
(* in flight, and every step in which a nextStep request settles, with     *)
(* success or with failure, leaves loading false.                          *)
(***************************************************************************)
C8_LoadingClearedWhenSettled ==
    /\ [](loading => nextInFlight > 0)
    /\ [][nextInFlight' < nextInFlight => ~loading']_vars

\* A nextStep request has failed, and Next is enabled again.
C8_Witness ==
    /\ stVariant = "api"
    /\ stLastLog = "nextStep failed:"
    /\ stLogged = 1
    /\ stNextCalls = 1
    /\ ~loading
    /\ nextInFlight = 0

(***************************************************************************)
(* C9: in StepControls at most one nextStep request is in flight at any    *)
(* time, and an invocation of Next while loading is true issues no         *)
(* request, emits no event and changes no state of the component.          *)
(***************************************************************************)
C9_OneNextStepInFlight ==
    /\ [](nextInFlight <= 1)
    /\ [][(stNextCalls' # stNextCalls /\ loading)
             => UNCHANGED <<stVariant, chatId, currentStep, totalSteps, loading,
                            nextInFlight, allInFlight, stEventCount, stLastEvent,
                            stLogged, stLastLog>>]_vars

\* Next was invoked a second time while the first request was in flight.
C9_Witness ==
    /\ stVariant = "api"
    /\ stNextCalls = 2
    /\ loading
    /\ nextInFlight = 1
    /\ stEventCount = 0
    /\ stLogged = 0

\* Every character of s is whitespace (the empty text included).
IsBlank(s) == \A i \in 1..Len(s) : s[i] \in Whitespace

\* c is s without the whitespace at its two ends: c starts and ends with a
\* character that is not whitespace, and s is c between two runs of whitespace.
IsTrimmed(c, s) ==
    /\ c # << >>
    /\ c[1] \notin Whitespace
    /\ c[Len(c)] \notin Whitespace
    /\ \E i \in 0..Len(s) :
          /\ i + Len(c) <= Len(s)
          /\ SubSeq(s, i + 1, i + Len(c)) = c
          /\ \A j \in 1..i : s[j] \in Whitespace
          /\ \A j \in (i + Len(c) + 1)..Len(s) : s[j] \in Whitespace

(***************************************************************************)
(* C10: in both variants of the SideChat panel, a submit (handleSend)      *)
(* while the input is empty or only whitespace emits no event and leaves   *)
(* the input unchanged; a submit of any other input emits exactly one      *)
(* sendMessage event, whose content is the input without the whitespace at *)
(* its ends, and clears the input to the empty string.                     *)
(***************************************************************************)
C10_SubmitEmitsTrimmedInput ==
    [][scLast' = "handleSend"
          => IF IsBlank(inputText)
             THEN /\ inputText' = inputText
                  /\ scEventCount' = scEventCount
                  /\ scLastEvent' = scLastEvent
             ELSE /\ scEventCount' = scEventCount + 1
                  /\ scLastEvent'.type = "sendMessage"
                  /\ IsTrimmed(scLastEvent'.content, inputText)
                  /\ inputText' = << >>]_vars

\* A message was sent, and then a whitespace-only input was submitted.
C10_Witness ==
    /\ scLast = "handleSend"
    /\ inputText = <<" ">>
    /\ scEventCount = 1
    /\ scLastEvent = [type |-> "sendMessage", content |-> <<"a">>]

(***************************************************************************)
(* C4: once Cancel was invoked in the TopicSplit banner, a cancelSplit     *)
(* event has been emitted, the banner is hidden and its timer is cleared,  *)
(* and no confirmSplit event is emitted, in that state and in every later  *)
(* one, past the original deadline included.                               *)
(***************************************************************************)
C4_CancelStopsTheSplit ==
    tsCancelInvoked
        => (tsCancels = 1 /\ ~visible /\ ~intervalActive /\ tsConfirms = 0)

\* Cancelled before the countdown expired, and still mounted past the deadline.
C4_Witness ==
    /\ tsCancelInvoked
    /\ tsPhase = "mounted"
    /\ tsTicks >= 1
    /\ tsTicks < NominalTicks(timeoutMs)
    /\ tsElapsed > NominalTicks(timeoutMs)

(***************************************************************************)
(* C5: with timeoutMs > 0, unless the banner is destroyed or Cancel is     *)
(* invoked, a confirmSplit event is eventually emitted; it is never        *)
(* emitted a second time, the timer being cleared once it was emitted.     *)
(***************************************************************************)
C5_ConfirmsExactlyOnce ==
    /\ <>(tsConfirms = 1 \/ tsCancelInvoked \/ tsPhase = "destroyed")
    /\ [](tsConfirms <= 1)
    /\ [](tsConfirms = 1 => (~intervalActive /\ progress = FZero))

\* The countdown ran out with the banner mounted, and time went on.
C5_Witness ==
    /\ tsConfirms = 1
    /\ tsPhase = "mounted"
    /\ ~tsCancelInvoked
    /\ tsElapsed > tsTicks

(***************************************************************************)
(* C6: once the TopicSplit banner is destroyed its timer is cancelled: no  *)
(* tick callback runs any more, progress is not changed any more and no    *)
(* confirmSplit event is emitted.                                          *)
(***************************************************************************)
C6_TeardownCancelsTimer ==
    /\ [](tsPhase = "destroyed" => ~intervalActive)
    /\ [][tsPhase = "destroyed"
             => (tsTicks' = tsTicks /\ progress' = progress /\ tsConfirms' = tsConfirms)]_vars

\* Destroyed while the countdown ran, and observed past the deadline.
C6_Witness ==
    /\ tsPhase = "destroyed"
    /\ ~tsCancelInvoked
    /\ tsConfirms = 0
    /\ tsTicks >= 1
    /\ tsElapsed > NominalTicks(timeoutMs)

(***************************************************************************)
(* C11: the request of every operation carries the Authorization header    *)
(* "Bearer <token>" exactly when a non-empty token is supplied, and no     *)
(* Authorization header at all when the token is empty or absent; Accept   *)
(* and Content-Type are application/json either way.                       *)
(***************************************************************************)
C11_AuthorizationOnlyWithToken ==
    [][\A op \in ApiOps, token \in Tokens :
          ApiCall(op, token) =>
              LET sent == requests'[Len(requests')].headers
              IN /\ HeaderValues(sent, "Accept") = {"application/json"}
                 /\ HeaderValues(sent, "Content-Type") = {"application/json"}
                 /\ HeaderValues(sent, "Authorization") =
                        (IF token.kind = "string" /\ token.val # ""
                         THEN {"Bearer " \o token.val}
                         ELSE {})]_vars

\* A request went out with the bearer token.
C11_Witness ==
    /\ Len(requests) = 1
    /\ HeaderValues(requests[1].headers, "Authorization") = {"Bearer secret"}
    /\ Cardinality(requests[1].headers) = 3

(***************************************************************************)
(* C12: an invocation issues exactly one HTTP request, on the success path *)
(* and on every failure path: none before the call, one from the call on,  *)
(* to the operation's URL with its method, and never a second one.         *)
(***************************************************************************)
C12_ExactlyOneRequest ==
    /\ apiPc = "idle" => requests = << >>
    /\ apiPc # "idle" =>
           /\ Len(requests) = 1
           /\ requests[1].url = Url(apiOp)
           /\ requests[1].method = Method(apiOp)

\* A call that failed at the network level has thrown, after one request.
C12_Witness ==
    /\ apiPc = "settled"
    /\ apiFailure = "network"
    /\ apiOutcome = "thrown"
    /\ Len(requests) = 1

(***************************************************************************)
(* C13: in the SideChat panel, Combine, Discard and Close only emit their  *)
(* intent to the parent: the step of each handler dispatches one event of  *)
(* its kind, issues no HTTP request and leaves isOpen and messages as they *)
(* are; isOpen changes only in a step of the parent.                       *)
(***************************************************************************)
C13_HandlersOnlyEmitIntents ==
    /\ [][scLast' \in {"handleCombine", "handleDiscard", "handleClose"} =>
             /\ isOpen' = isOpen
             /\ messages' = messages
             /\ requests' = requests
             /\ scEventCount' = scEventCount + 1
             /\ scLastEvent' =
                    [type |-> (CASE scLast' = "handleCombine" -> "combine"
                                 [] scLast' = "handleDiscard" -> "discard"
                                 [] scLast' = "handleClose" -> "close"),
                     content |-> << >>]]_vars
    /\ [][isOpen' # isOpen => scLast' = "parent"]_vars

\* Close was clicked: the intent went out and the panel is still open.
C13_Witness ==
    /\ scLast = "handleClose"
    /\ scLastEvent.type = "close"
    /\ isOpen

\* A step of StepControls in which events follow successful requests only:
\* an event is emitted in the step that settles a request, and carries its
\* result; the step that settles a request without an event logs the error;
\* a step that logs emits nothing.
StepEventFollowsSuccess ==
    /\ stEventCount' # stEventCount =>
           /\ stEventCount' = stEventCount + 1
           /\ \/ /\ nextInFlight' = nextInFlight - 1
                 /\ stLastEvent' = [type |-> "nextStep", detail |-> "result"]
              \/ /\ allInFlight' = allInFlight - 1
                 /\ stLastEvent' = [type |-> "showAllSteps", detail |-> "steps"]
    /\ ((nextInFlight' < nextInFlight \/ allInFlight' < allInFlight)
            /\ stEventCount' = stEventCount) => stLogged' = stLogged + 1
    /\ stLogged' # stLogged =>
           /\ stEventCount' = stEventCount
           /\ stLogged' = stLogged + 1
           /\ \/ nextInFlight' = nextInFlight - 1 /\ stLastLog' = "nextStep failed:"
              \/ allInFlight' = allInFlight - 1 /\ stLastLog' = "getAllSteps failed:"

(***************************************************************************)
(* C14: in StepControls a nextStep event is emitted only after a           *)
(* successful nextStep request and carries its result, a showAllSteps      *)
(* event only after a successful getAllSteps request and carries the step  *)
(* list; a failed request is logged and emits no event.                    *)
(***************************************************************************)
C14_EventsOnlyAfterSuccess == [][StepEventFollowsSuccess]_vars

(***************************************************************************)
(* C14, as it holds: the above for the StepControls that calls the         *)
(* backend; the event-only StepControls makes no request and logs nothing, *)
(* and emits its event, without a payload, in the step of the click.       *)
(***************************************************************************)
C14_EventsOnlyAfterSuccessWhereRequested ==
    [][IF stVariant = "api"
       THEN StepEventFollowsSuccess
       ELSE /\ nextInFlight' = 0 /\ allInFlight' = 0 /\ stLogged' = 0
            /\ stEventCount' # stEventCount =>
                   /\ stEventCount' = stEventCount + 1
                   /\ \/ /\ stNextCalls' = stNextCalls + 1
                         /\ stLastEvent' = [type |-> "nextStep", detail |-> "none"]
                      \/ /\ stAllCalls' = stAllCalls + 1
                         /\ stLastEvent' = [type |-> "showAllSteps", detail |-> "none"]]_vars

\* One nextStep request failed and was logged, another succeeded and its
\* result was emitted.
C14_Witness ==
    /\ stVariant = "api"
    /\ stLogged = 1
    /\ stLastLog = "nextStep failed:"
    /\ stEventCount = 1
    /\ stLastEvent = [type |-> "nextStep", detail |-> "result"]
    /\ nextInFlight = 0

(***************************************************************************)
(* C15: in the SideChat panel that keeps busy flags, while combineLoading  *)
(* or discardLoading is set no step of handleCombine or handleDiscard      *)
(* happens, so the two flags are never both set and a combine and a        *)
(* discard intent are never both outstanding; the Send button is enabled   *)
(* for every non-blank input whether or not a flag is set.                 *)
(***************************************************************************)
C15_CombineDiscardExcludeEachOther ==
    /\ [][(scVariant = "flags" /\ scLast' \in {"handleCombine", "handleDiscard"}) =>
             /\ ~combineLoading /\ ~discardLoading
             /\ combineLoading' # discardLoading']_vars
    /\ [](scVariant = "flags" =>
             /\ ~(combineLoading /\ discardLoading)
             /\ scInFlight["combine"] + scInFlight["discard"] <= 1)
    /\ []((scVariant = "flags" /\ ~IsBlank(inputText)) => ~SendDisabled)

\* A message was sent while the combine flag was set.
C15_Witness ==
    /\ scVariant = "flags"
    /\ combineLoading
    /\ scInFlight["combine"] = 1
    /\ scLast = "handleSend"
    /\ scLastEvent.type = "sendMessage"
    /\ scEventCount = 2

\* x <= y, for doubles.
FLeq(x, y) == FLeqZero(FSub(x, y))

\* progress is within [0, 100].
ProgressInRange == FLeq(FZero, progress) /\ FLeq(progress, FFromNat(100))

\* Every tick takes (50 / timeoutMs) * 100 off progress, clamping at 0, and
\* no step increases progress.
ProgressDrains ==
    /\ FLeq(progress', progress)
    /\ tsTicks' = tsTicks + 1 =>
           LET drained == FSub(progress, FMulNat(FDivNat(50, timeoutMs), 100))
           IN progress' = (IF FLeqZero(drained) THEN FZero ELSE drained)

\* The confirmation comes on tick timeoutMs / 50: not before it, and the
\* countdown does not run past it.
ConfirmsOnNominalTick ==
    /\ tsConfirms > 0 => tsTicks = timeoutMs \div 50
    /\ tsTicks >= timeoutMs \div 50 => ~intervalActive

(***************************************************************************)
(* C16: the countdown starts at progress = 100, every tick decreases       *)
(* progress by (50 / timeoutMs) * 100, clamping at 0, progress never       *)
(* increases and stays within [0, 100]; for timeoutMs a positive multiple  *)
(* of 50 the confirmation fires on exactly tick timeoutMs / 50.            *)
(***************************************************************************)
C16_CountdownReachesZeroOnTime ==
    /\ [](tsTicks = 0 => progress = FFromNat(100))
    /\ []ProgressInRange
    /\ [][ProgressDrains]_vars
    /\ []ConfirmsOnNominalTick

(***************************************************************************)
(* C17: under every interleaving of ticks, Cancel clicks and teardown, a   *)
(* banner emits at most one event in total, confirmSplit or cancelSplit,   *)
(* and its visible flag is set exactly when it has emitted no event yet.   *)
(***************************************************************************)
C17_AtMostOneEventAndVisibleUntilThen ==
    /\ tsConfirms + tsCancels <= 1
    /\ visible <=> (tsConfirms + tsCancels = 0)

\* The banner was cancelled after a tick and destroyed later, past the
\* deadline: one event, cancelSplit, and the banner hidden.
C17_Witness ==
    /\ tsPhase = "destroyed"
    /\ tsCancels = 1
    /\ tsConfirms = 0
    /\ ~visible
    /\ tsTicks >= 1
    /\ tsElapsed > NominalTicks(timeoutMs)

=============================================================================
